---- MODULE Spec2Model ----
(***************************************************************************)
(* Task queue (TaskQueueService) and agent lifecycle                        *)
(* (AgentOrchestrationService) of agent-forge, as state machines.           *)
(*                                                                          *)
(* One action per public method, timer callback or interval handler.  The  *)
(* services run on a single JavaScript event loop and no handler awaits     *)
(* anything that yields before its mutations are done, so one handler is    *)
(* one atomic step.  The hook callbacks updateTaskStatus awaits run after  *)
(* its mutations and are taken to settle before another handler runs.       *)
(* Time is a clock `now` counted in minutes.                                *)
(***************************************************************************)
EXTENDS Integers, Sequences, FiniteSets, Bags, TLC

\* ------------------------------------------------------------------ bounds
MaxTasks == 3          \* task ids the store can hold
LifecycleTasks == 2    \* tasks enqueued under Spec
MaxReports == 2        \* status updates reported from outside under Spec
PriorityReports == 1   \* status updates reported from outside under PrioritySpec
CancelTasks == 2       \* tasks enqueued under CancelSpec
CancelReports == 1     \* status updates reported from outside under CancelSpec
MaxErrors == 2         \* length of a task's errors list
MaxNow == 3            \* last minute of the clock
MaxAgents == 2         \* agents created
MaxRetryCount == 3     \* retry attempts of one task under RetrySpec
MaxDelay == 2          \* largest configured retryDelay
MaxMultiplier == 2     \* largest configured backoffMultiplier
MaxCap == 4            \* largest configured maxRetryDelay
MaxHooks == 2          \* execution hooks registered
TeardownTasks == 2     \* tasks enqueued under TeardownSpec
BucketTasks == 2       \* tasks enqueued under BucketSpec
HookTasks == 1         \* tasks enqueued under HookSpec
HookReports == 1       \* status updates reported from outside under HookSpec
ClockTasks == 1        \* tasks enqueued under ClockSpec
ClockReports == 1      \* status updates reported from outside under ClockSpec
TimeoutTasks == 1      \* tasks enqueued under TimeoutSpec
TimeoutReports == 1    \* status updates reported from outside under TimeoutSpec
ListNow == 1           \* the clock stops here under ListSpec
ListTasks == 2         \* tasks enqueued under ListSpec
MaxPage == 2           \* largest page asked of listTasks
MaxLimit == 2          \* largest limit asked of listTasks
TakeTasks == 2         \* tasks enqueued under TakeSpec
TakeReports == 1       \* status updates reported from outside under TakeSpec
FailureTasks == 1      \* tasks enqueued under FailureSpec
FailureReports == 2    \* status updates that reach the service under FailureSpec
FrameTasks == 1        \* tasks enqueued under FrameSpec
FrameReports == 1      \* status updates reported from outside under FrameSpec
OutcomeTasks == 1      \* tasks enqueued under OutcomeSpec
OutcomeReports == 1    \* status updates reported from outside under OutcomeSpec
DeliveryTasks == 1     \* tasks enqueued under DeliverySpec
DeliveryReports == 2   \* status updates reported from outside under DeliverySpec
RouteTasks == 1        \* tasks enqueued under RouteSpec
RouteReports == 1      \* status updates the route passes on under RouteSpec

\* --------------------------------------------------------------- constants
NoTime == -1
NoValue == "undefined"
NoTask == 0
\* An optional TaskError is a sequence of at most one error record.
NoError == <<>>
\* context.maxRetries is optional: a task enqueued without it has none.
NoMaxRetries == -1
\* A task id the status route refuses: taskId.trim().length === 0
BlankTaskId == -1
StaleMinutes == 2
\* healthCheckInterval as createTaskQueueService sets it: 60000 ms.
DefaultHealthCheckInterval == 1

\* TaskQueueConfig.defaultRetry as createTaskQueueService sets it, in seconds.
DefaultRetry ==
  [maxRetries |-> 3, retryDelay |-> 1, backoffMultiplier |-> 2, maxRetryDelay |-> 10]

\* The callbacks of a TaskExecutionHook, in the order executeStatusChangeHooks
\* tries them.
CallbackOrder == <<"beforeStart", "afterComplete", "onError", "onProgress">>
Callbacks == {CallbackOrder[i] : i \in 1..Len(CallbackOrder)}

TaskIds == 1..MaxTasks
WorkerIds == {"w1"}
AgentIds == 1..MaxAgents

TaskStatuses == {"pending", "running", "completed", "failed", "cancelled", "timeout"}
PriorityOrder == <<"urgent", "high", "normal", "low">>
Priorities == {PriorityOrder[i] : i \in 1..Len(PriorityOrder)}
AgentStatuses == {"active", "inactive", "pending", "error", "deploying"}

VARIABLES
  now,               \* the wall clock read by new Date() / Date.now()
  tasks,             \* TaskQueueService.tasks : id -> Task
  queuesByPriority,  \* TaskQueueService.queuesByPriority : priority -> Seq(id)
  workers,           \* TaskQueueService.workers : id -> QueueWorker
  timers,            \* bag of task ids with an outcome callback outstanding
  agents,            \* AgentOrchestrationService.agents : id -> Agent
  runningAgents,     \* AgentOrchestrationService.runningAgents
  agentSeq,          \* number of agent ids generated so far
  deployTimers,      \* agent ids with a deployment callback outstanding
  ret,               \* the last handler that ran, its argument and its result
  statusReports,     \* history: number of status updates reported from outside
  cancelledPending,  \* history: tasks cancelled successfully while pending
  executionHooks,    \* TaskQueueService.executionHooks : Seq(TaskExecutionHook)
  hookCalls,         \* the hook callbacks invoked by the last status update
  retryConfig,       \* TaskQueueConfig.defaultRetry
  retryDelays,       \* the delays computed for the retry attempts of one task
  taken,             \* history: bag of the task ids the task processor has taken
  healthCheckInterval  \* TaskQueueConfig.healthCheckInterval, in minutes

hookVars == <<executionHooks, hookCalls>>
retryVars == <<retryConfig, retryDelays>>
queueVars == <<tasks, queuesByPriority, workers, timers, statusReports, cancelledPending,
               executionHooks, hookCalls, retryConfig, retryDelays, taken,
          healthCheckInterval>>
agentVars == <<agents, runningAgents, agentSeq, deployTimers>>
vars == <<now, tasks, queuesByPriority, workers, timers, agents, runningAgents,
          agentSeq, deployTimers, ret, statusReports, cancelledPending,
          executionHooks, hookCalls, retryConfig, retryDelays, taken,
          healthCheckInterval>>

\* ret.pre is the status the addressed task or agent had when the handler started.
Ret(op, id, code, pre) == [op |-> op, id |-> id, code |-> code, pre |-> pre]

\* ------------------------------------------------------------ pure helpers
Last(q) == q[Len(q)]
Front(q) == SubSeq(q, 1, Len(q) - 1)

\* The time a bucket is sorted by: scheduledAt?.getTime() || createdAt.getTime()
SortKey(task) ==
  IF task.scheduledAt # NoTime /\ task.scheduledAt # 0
  THEN task.scheduledAt
  ELSE task.createdAt

\* Array.prototype.sort is stable: x goes behind every entry whose key is <= its own.
RECURSIVE InsertByKey(_, _, _)
InsertByKey(q, x, tk) ==
  IF q = <<>> THEN <<x>>
  ELSE IF SortKey(tk[Last(q)]) <= SortKey(tk[x])
       THEN Append(q, x)
       ELSE Append(InsertByKey(Front(q), x, tk), Last(q))

RECURSIVE sortQueueByScheduledTime(_, _)
sortQueueByScheduledTime(q, tk) ==
  IF q = <<>> THEN <<>>
  ELSE InsertByKey(sortQueueByScheduledTime(Front(q), tk), Last(q), tk)

InQueue(q, t) == \E i \in 1..Len(q) : q[i] = t
InAnyBucket(t) == \E p \in Priorities : InQueue(queuesByPriority[p], t)

\* queue.findIndex(...) + queue.splice(index, 1): drop the first occurrence of t
RemoveFirst(q, t) ==
  IF ~InQueue(q, t) THEN q
  ELSE LET i == CHOOSE j \in 1..Len(q) : q[j] = t /\ \A k \in 1..(j - 1) : q[k] # t
       IN SubSeq(q, 1, i - 1) \o SubSeq(q, i + 1, Len(q))

InitConfigured(cfg, interval) ==
  /\ now = 0
  /\ tasks = <<>>
  /\ queuesByPriority = [p \in Priorities |-> <<>>]
  /\ workers = <<>>
  /\ timers = EmptyBag
  /\ agents = <<>>
  /\ runningAgents = {}
  /\ agentSeq = 0
  /\ deployTimers = {}
  /\ ret = Ret("init", 0, "OK", NoValue)
  /\ statusReports = 0
  /\ cancelledPending = {}
  /\ executionHooks = <<>>
  /\ hookCalls = <<>>
  /\ retryConfig = cfg
  /\ retryDelays = <<>>
  /\ taken = EmptyBag
  /\ healthCheckInterval = interval

InitWith(cfg) == InitConfigured(cfg, DefaultHealthCheckInterval)

Init == InitWith(DefaultRetry)

\* ------------------------------------------------------------------ clock
Tick ==
  /\ now < MaxNow
  /\ now' = now + 1
  /\ ret' = Ret("tick", 0, "OK", NoValue)
  /\ UNCHANGED <<queueVars, agentVars>>

\* ---------------------------------------------------------- TaskQueueService
NewTask(req, t) ==
  [ status      |-> "pending",
    priority    |-> req.priority,
    agentId     |-> req.agentId,
    maxRetries  |-> req.maxRetries,
    timeout     |-> req.timeout,
    retryCount  |-> 0,
    createdAt   |-> t,
    updatedAt   |-> t,
    scheduledAt |-> req.scheduledAt,
    startedAt   |-> NoTime,
    completedAt |-> NoTime,
    result      |-> NoValue,
    progress    |-> NoValue,
    errors      |-> <<>> ]

enqueueTask(req) ==
  LET taskId == Cardinality(DOMAIN tasks) + 1
      tk == [i \in (DOMAIN tasks) \cup {taskId} |->
               IF i = taskId THEN NewTask(req, now) ELSE tasks[i]]
  IN /\ Cardinality(DOMAIN tasks) < MaxTasks
     /\ tasks' = tk
     /\ queuesByPriority' =
          [queuesByPriority EXCEPT ![req.priority] =
             sortQueueByScheduledTime(Append(@, taskId), tk)]
     /\ ret' = Ret("enqueueTask", taskId, "OK", NoValue)
     /\ UNCHANGED <<now, workers, timers, statusReports, cancelledPending, agentVars,
                 hookVars, retryVars, taken, healthCheckInterval>>

\* The update with the errors list replaced by the new error.
ApplyUpdateLastErrorOnly(task, u, t) ==
  LET t1 == [task EXCEPT !.status = u.status, !.updatedAt = t]
      t2 == CASE u.status = "running" ->
                   [t1 EXCEPT !.startedAt = t]
               [] u.status = "completed" ->
                   [t1 EXCEPT !.completedAt = t,
                              !.result = IF u.result # NoValue THEN u.result ELSE @]
               [] u.status = "failed" ->
                   [t1 EXCEPT !.completedAt = t,
                              !.errors = IF u.error # NoError THEN <<u.error[1]>> ELSE @,
                              !.result = IF u.result # NoValue THEN u.result ELSE @]
               [] OTHER -> t1
  IN [t2 EXCEPT !.progress = IF u.progress # NoValue THEN u.progress ELSE @]

\* The switch and the progress assignment of updateTaskStatus, on one task record.
ApplyUpdate(task, u, t) ==
  LET t1 == [task EXCEPT !.status = u.status, !.updatedAt = t]
      t2 == CASE u.status = "running" ->
                   [t1 EXCEPT !.startedAt = t]
               [] u.status = "completed" ->
                   [t1 EXCEPT !.completedAt = t,
                              !.result = IF u.result # NoValue THEN u.result ELSE @]
               [] u.status = "failed" ->
                   [t1 EXCEPT !.completedAt = t,
                              !.errors = IF u.error # NoError THEN Append(@, u.error[1]) ELSE @,
                              !.result = IF u.result # NoValue THEN u.result ELSE @]
               [] OTHER -> t1
  IN [t2 EXCEPT !.progress = IF u.progress # NoValue THEN u.progress ELSE @]

StatusOf(taskId) == IF taskId \in DOMAIN tasks THEN tasks[taskId].status ELSE NoValue

\* What updateTaskStatus does to the task store and what it returns.
UpdateCode(taskId) == IF taskId \in DOMAIN tasks THEN "OK" ELSE "TASK_NOT_FOUND"

UpdatedTasks(taskId, u) ==
  IF taskId \in DOMAIN tasks
  THEN [tasks EXCEPT ![taskId] = ApplyUpdate(@, u, now)]
  ELSE tasks

\* The errors list is capped at MaxErrors to keep the state space finite.
ErrorRoom(taskId, u) ==
  (taskId \in DOMAIN tasks /\ u.status = "failed" /\ u.error # NoError)
     => Len(tasks[taskId].errors) < MaxErrors

\* if (condition on the task && the hook defines the callback)
Due(cb, hook, task) ==
  /\ cb \in hook.defines
  /\ CASE cb = "beforeStart"   -> task.status = "running"
       [] cb = "afterComplete" -> task.status = "completed" /\ task.result # NoValue
       [] cb = "onError"       -> task.status = "failed" /\ Len(task.errors) > 0
       [] cb = "onProgress"    -> task.progress # NoValue

\* The body of the try block for one hook: the callbacks invoked, in order; a
\* callback that throws is the last one invoked.
RECURSIVE Invoked(_, _, _)
Invoked(hook, task, k) ==
  IF k > Len(CallbackOrder) THEN <<>>
  ELSE LET cb == CallbackOrder[k] IN
       IF Due(cb, hook, task)
       THEN IF cb \in hook.throws THEN <<cb>>
            ELSE <<cb>> \o Invoked(hook, task, k + 1)
       ELSE Invoked(hook, task, k + 1)

Threw(hook, task) ==
  \E k \in 1..Len(Invoked(hook, task, 1)) : Invoked(hook, task, 1)[k] \in hook.throws

CallsOf(hook, task, i) ==
  [k \in 1..Len(Invoked(hook, task, 1)) |->
     [hook |-> i, callback |-> Invoked(hook, task, 1)[k]]]

\* executeStatusChangeHooks without the try/catch around a hook: the first throw
\* ends the loop and escapes to the caller.
RECURSIVE executeStatusChangeHooksUncaught(_, _, _)
executeStatusChangeHooksUncaught(hooks, task, i) ==
  IF i > Len(hooks) THEN [calls |-> <<>>, escaped |-> FALSE]
  ELSE IF Threw(hooks[i], task)
       THEN [calls |-> CallsOf(hooks[i], task, i), escaped |-> TRUE]
       ELSE LET rest == executeStatusChangeHooksUncaught(hooks, task, i + 1)
            IN [calls |-> CallsOf(hooks[i], task, i) \o rest.calls,
                escaped |-> rest.escaped]

\* for (hook of executionHooks) { try { ... } catch { console.error } }: a throw
\* is caught inside the loop and the loop goes on with the next hook.
RECURSIVE executeStatusChangeHooks(_, _, _)
executeStatusChangeHooks(hooks, task, i) ==
  IF i > Len(hooks) THEN [calls |-> <<>>, escaped |-> FALSE]
  ELSE LET rest == executeStatusChangeHooks(hooks, task, i + 1)
       IN [calls |-> CallsOf(hooks[i], task, i) \o rest.calls,
           escaped |-> rest.escaped]

\* updateTaskStatus with a retry that pushes a task reported as pending onto
\* the bucket of its priority without looking whether it is there.
UpdatedQueuesRequeuing(taskId, u) ==
  IF taskId \in DOMAIN tasks /\ u.status = "pending"
  THEN [queuesByPriority EXCEPT ![tasks[taskId].priority] = Append(@, taskId)]
  ELSE queuesByPriority

\* updateTaskStatus touches no bucket (cleaning the queues is a TODO).
UpdatedQueues(taskId, u) == queuesByPriority

\* The hook run of updateTaskStatus on the task as updated, and the result the
\* method returns: an exception that reaches its catch gives TASK_UPDATE_FAILED.
HookRun(taskId, u) ==
  IF taskId \in DOMAIN tasks
  THEN executeStatusChangeHooks(executionHooks, ApplyUpdate(tasks[taskId], u, now), 1)
  ELSE [calls |-> <<>>, escaped |-> FALSE]

UpdateResult(taskId, u) ==
  IF taskId \notin DOMAIN tasks THEN "TASK_NOT_FOUND"
  ELSE IF HookRun(taskId, u).escaped THEN "TASK_UPDATE_FAILED"
  ELSE "OK"

updateTaskStatus(taskId, u) ==
  /\ ErrorRoom(taskId, u)
  /\ statusReports' = statusReports + 1
  /\ tasks' = UpdatedTasks(taskId, u)
  /\ queuesByPriority' = UpdatedQueues(taskId, u)
  /\ hookCalls' = HookRun(taskId, u).calls
  /\ ret' = Ret("updateTaskStatus", taskId, UpdateResult(taskId, u), StatusOf(taskId))
  /\ UNCHANGED <<now, workers, timers, cancelledPending, agentVars, executionHooks,
                 retryVars, taken, healthCheckInterval>>

\* The refused statuses with cancelled forgotten.
CancelFinishedWithoutCancelled == {"completed", "failed"}

\* The statuses cancelTask refuses.
CancelFinished == {"completed", "failed", "cancelled"}

CancelCode(taskId) ==
  IF taskId \notin DOMAIN tasks THEN "TASK_NOT_FOUND"
  ELSE IF tasks[taskId].status \in CancelFinished THEN "TASK_ALREADY_FINISHED"
  ELSE "OK"

\* cancelTask with its removal loop left out: the entry stays in its bucket.
RemoveFromQueuesSkipped(qs, taskId, i) == qs

\* for (queue of queuesByPriority.values()) { findIndex; splice; break }
RECURSIVE RemoveFromQueues(_, _, _)
RemoveFromQueues(qs, taskId, i) ==
  IF i > Len(PriorityOrder) THEN qs
  ELSE IF InQueue(qs[PriorityOrder[i]], taskId)
       THEN [qs EXCEPT ![PriorityOrder[i]] = RemoveFirst(@, taskId)]
       ELSE RemoveFromQueues(qs, taskId, i + 1)

\* The removal loop run before the two early returns.
CancelledQueuesBeforeReturns(taskId) ==
  RemoveFromQueues(queuesByPriority, taskId, 1)

\* The buckets after cancelTask: the removal loop comes after both early returns.
CancelledQueues(taskId) ==
  IF CancelCode(taskId) = "OK"
  THEN RemoveFromQueues(queuesByPriority, taskId, 1)
  ELSE queuesByPriority

cancelTask(taskId) ==
  /\ ret' = Ret("cancelTask", taskId, CancelCode(taskId), StatusOf(taskId))
  /\ queuesByPriority' = CancelledQueues(taskId)
  /\ IF CancelCode(taskId) = "OK"
     THEN /\ tasks' = [tasks EXCEPT ![taskId] =
                 [@ EXCEPT !.status = "cancelled", !.updatedAt = now, !.completedAt = now]]
          /\ cancelledPending' =
               IF tasks[taskId].status = "pending"
               THEN cancelledPending \cup {taskId} ELSE cancelledPending
     ELSE UNCHANGED <<tasks, cancelledPending>>
  /\ UNCHANGED <<now, workers, timers, statusReports, agentVars,
                 hookVars, retryVars, taken, healthCheckInterval>>

getTask(taskId) ==
  /\ ret' = Ret("getTask", taskId, UpdateCode(taskId), StatusOf(taskId))
  /\ UNCHANGED <<now, queueVars, agentVars>>

\* listTasks (258-348).  Array.from(this.tasks.values()) is the store in
\* insertion order, which is the order of the ids.
AllTasks == [i \in 1..Cardinality(DOMAIN tasks) |-> i]

\* One filter of 273-299: a filter that is not given lets every task pass.
Passes(task, filters) ==
  /\ filters.status = NoValue \/ task.status = filters.status
  /\ filters.priority = NoValue \/ task.priority = filters.priority
  /\ filters.agentId = NoValue \/ task.agentId = filters.agentId
  /\ filters.createdAfter = NoTime \/ task.createdAt >= filters.createdAfter
  /\ filters.createdBefore = NoTime \/ task.createdAt <= filters.createdBefore

FilterSeq(s, filters) ==
  SelectSeq(s, LAMBDA t : Passes(tasks[t], filters))

\* Array.prototype.sort with (a, b) => b.createdAt - a.createdAt (302): a
\* stable sort, newest first; equal creation times keep their order.
RECURSIVE InsertNewestFirst(_, _)
InsertNewestFirst(s, x) ==
  IF s = <<>> THEN <<x>>
  ELSE IF tasks[Last(s)].createdAt >= tasks[x].createdAt
       THEN Append(s, x)
       ELSE Append(InsertNewestFirst(Front(s), x), Last(s))

RECURSIVE SortNewestFirst(_)
SortNewestFirst(s) ==
  IF s = <<>> THEN <<>>
  ELSE InsertNewestFirst(SortNewestFirst(Front(s)), Last(s))

\* Array.prototype.slice(start, end) for start, end >= 0: both ends are
\* clamped to the length.
Slice(s, start, end) ==
  LET lo == IF start <= Len(s) THEN start ELSE Len(s)
      hi == IF end <= Len(s) THEN end ELSE Len(s)
  IN  [i \in 1..(hi - lo) |-> s[lo + i]]

\* Math.ceil(a / b) for a >= 0 and b >= 1 (309).
Ceil(a, b) == IF a % b = 0 THEN a \div b ELSE (a \div b) + 1

StartIndexFromPage(page, limit) == page * limit

StartIndex(page, limit) == (page - 1) * limit

TaskListResponse(filters, page, limit) ==
  LET filteredTasks == SortNewestFirst(FilterSeq(AllTasks, filters))
      startIndex    == StartIndex(page, limit)
      endIndex      == startIndex + limit
      totalPages    == Ceil(Len(filteredTasks), limit)
  IN  [op |-> "listTasks", id |-> NoTask, code |-> "OK", pre |-> NoValue,
       filters |-> filters, page |-> page, limit |-> limit,
       tasks |-> Slice(filteredTasks, startIndex, endIndex),
       total |-> Len(filteredTasks),
       totalPages |-> totalPages,
       hasMore |-> page < totalPages]

listTasks(filters, page, limit) ==
  /\ ret' = TaskListResponse(filters, page, limit)
  /\ UNCHANGED <<now, queueVars, agentVars>>

registerWorker(workerId) ==
  /\ workers' = [w \in (DOMAIN workers) \cup {workerId} |->
                   IF w = workerId
                   THEN [status |-> "idle", currentTasks |-> <<>>, lastHeartbeat |-> now]
                   ELSE workers[w]]
  /\ ret' = Ret("registerWorker", 0, "OK", NoValue)
  /\ UNCHANGED <<now, tasks, queuesByPriority, timers, statusReports, cancelledPending,
                 agentVars, hookVars, retryVars, taken, healthCheckInterval>>

ShiftedKeepingHead(q) == q

\* The bucket after queue.shift() (605).
Shifted(q) == Tail(q)

\* The scan of processNextTask: the head of each non-empty bucket is shifted out;
\* a pending head is taken and ends the scan, any other head is dropped and the
\* scan moves on to the next priority.
RECURSIVE ProcessScan(_, _)
ProcessScan(qs, i) ==
  IF i > Len(PriorityOrder) THEN [queues |-> qs, task |-> NoTask]
  ELSE LET p == PriorityOrder[i] IN
       IF Len(qs[p]) > 0
       THEN LET head == Head(qs[p])
                shifted == [qs EXCEPT ![p] = Shifted(@)]
            IN IF tasks[head].status = "pending"
               THEN [queues |-> shifted, task |-> head]
               ELSE ProcessScan(shifted, i + 1)
       ELSE ProcessScan(qs, i + 1)

IdleWorkers == {w \in DOMAIN workers : workers[w].status = "idle"}

processNextTask ==
  LET scan == ProcessScan(queuesByPriority, 1) IN
  /\ IF IdleWorkers = {}
     THEN /\ ret' = Ret("processNextTask", NoTask, "NO_IDLE_WORKER", NoValue)
          /\ UNCHANGED <<queuesByPriority, timers, taken, healthCheckInterval>>
     ELSE /\ queuesByPriority' = scan.queues
          /\ ret' = Ret("processNextTask", scan.task, "OK", NoValue)
          /\ timers' = IF scan.task # NoTask
                        THEN timers (+) SetToBag({scan.task})
                        ELSE timers
          /\ taken' = IF scan.task # NoTask
                       THEN taken (+) SetToBag({scan.task})
                       ELSE taken
  /\ UNCHANGED <<now, tasks, workers, statusReports, cancelledPending, agentVars,
                 hookVars, retryVars, healthCheckInterval>>

\* An outcome callback that reports the task as running.
SimulatedUpdateRunning(taskId, success) ==
  [status |-> "running", result |-> NoValue, error |-> NoError, progress |-> NoValue]

\* The setTimeout callback of processNextTask: Math.random() < 0.8 picks the outcome.
SimulatedUpdate(taskId, success) ==
  IF success
  THEN [status |-> "completed", result |-> "success", error |-> NoError, progress |-> NoValue]
  ELSE [status |-> "failed", result |-> NoValue, progress |-> NoValue,
        error |-> <<[recoverable |-> TRUE, retryAttempt |-> tasks[taskId].retryCount]>>]

outcomeCallback(taskId, success) ==
  /\ BagIn(taskId, timers)
  /\ ErrorRoom(taskId, SimulatedUpdate(taskId, success))
  /\ timers' = timers (-) SetToBag({taskId})
  /\ tasks' = UpdatedTasks(taskId, SimulatedUpdate(taskId, success))
  /\ hookCalls' = HookRun(taskId, SimulatedUpdate(taskId, success)).calls
  /\ ret' = Ret("outcomeCallback", taskId,
                UpdateResult(taskId, SimulatedUpdate(taskId, success)), StatusOf(taskId))
  /\ UNCHANGED <<now, queuesByPriority, workers, statusReports, cancelledPending, agentVars,
                 executionHooks, retryVars, taken, healthCheckInterval>>

addExecutionHook(hook) ==
  /\ Len(executionHooks) < MaxHooks
  /\ executionHooks' = Append(executionHooks, hook)
  /\ ret' = Ret("addExecutionHook", 0, "OK", NoValue)
  /\ UNCHANGED <<now, tasks, queuesByPriority, workers, timers, statusReports,
                 cancelledPending, agentVars, hookCalls, retryVars, taken, healthCheckInterval>>

Stale(worker) == worker.lastHeartbeat < now - StaleMinutes

checkWorkerHealth ==
  /\ workers' = [w \in {x \in DOMAIN workers : ~Stale(workers[x])} |-> workers[w]]
  /\ ret' = Ret("checkWorkerHealth", 0, "OK", NoValue)
  /\ UNCHANGED <<now, tasks, queuesByPriority, timers, statusReports, cancelledPending,
                 agentVars, hookVars, retryVars, taken, healthCheckInterval>>

\* ------------------------------------------------------------ status route
\* PUT /api/v1/tasks/[id]/status.  MonitoringService.log and recordMetric catch
\* their own exceptions and the route ignores what they return.
RetPut(id, code, pre, body, fails) ==
  [op |-> "PUT", id |-> id, code |-> code, pre |-> pre, body |-> body,
   monitoringFails |-> fails]

isValidTaskStatus(status) == status \in TaskStatuses

\* validateTaskStatusUpdate with its two rules on the status left out.
ValidWithoutStatusRules(body) == isValidTaskStatus(body.status)

\* validateTaskStatusUpdate: errors.length === 0.  The bodies carry well-formed
\* result, progress and error objects, so the rules that remain are the one on
\* the status and the two on what a status requires.
validateTaskStatusUpdate(body) ==
  /\ isValidTaskStatus(body.status)
  /\ ~(body.status = "completed" /\ body.result = NoValue)
  /\ ~(body.status = "failed" /\ body.error = NoError)

\* retryAttempt: e.retryAttempt || 0, recoverable: e.recoverable !== false
StatusUpdate(body) ==
  [status   |-> body.status,
   result   |-> body.result,
   progress |-> body.progress,
   error    |-> IF body.error # NoError
                THEN <<[recoverable  |-> ~(body.error[1].recoverable = FALSE),
                        retryAttempt |-> IF body.error[1].retryAttempt # 0
                                         THEN body.error[1].retryAttempt ELSE 0]>>
                ELSE NoError]

\* The response before the service is called, if there is one.
Rejection(taskId, body) ==
  IF taskId = BlankTaskId THEN "INVALID_TASK_ID"
  ELSE IF ~validateTaskStatusUpdate(body) THEN "VALIDATION_FAILED"
  ELSE "OK"

\* MonitoringService.log and recordMetric: a failure is caught inside the
\* method and comes back as an error response.
MonitoringCode(fails) == IF fails THEN "LOG_FAILED" ELSE "OK"

\* await monitoring.log(...) with a failure that is thrown: the catch of the
\* route answers.
AfterMonitoringThrown(fails, code) ==
  IF MonitoringCode(fails) # "OK" THEN "INTERNAL_SERVER_ERROR" ELSE code

\* await monitoring.log(...): the response is not read and the route goes on
\* to the answer it was about to give.
AfterMonitoring(fails, code) == code

\* The answer of the route before the service is called: monitoring.log is
\* awaited with every rejection and once more before the call of the service.
Attempt(taskId, body, fails) == AfterMonitoring(fails, Rejection(taskId, body))

\* The task store after the request.
PutTasks(taskId, body, fails) ==
  IF Attempt(taskId, body, fails) # "OK" THEN tasks
  ELSE UpdatedTasks(taskId, StatusUpdate(body))

PUT(taskId, body, fails) ==
  IF Attempt(taskId, body, fails) # "OK"
  THEN /\ ret' = RetPut(taskId, Attempt(taskId, body, fails), StatusOf(taskId), body, fails)
       /\ UNCHANGED <<now, queueVars, agentVars>>
  ELSE /\ ErrorRoom(taskId, StatusUpdate(body))
       /\ statusReports' = statusReports + 1
       /\ tasks' = PutTasks(taskId, body, fails)
       /\ queuesByPriority' = UpdatedQueues(taskId, StatusUpdate(body))
       /\ hookCalls' = HookRun(taskId, StatusUpdate(body)).calls
       /\ ret' = RetPut(taskId,
                        AfterMonitoring(fails, UpdateResult(taskId, StatusUpdate(body))),
                        StatusOf(taskId), body, fails)
       /\ UNCHANGED <<now, workers, timers, cancelledPending, agentVars, executionHooks,
                      retryVars, taken, healthCheckInterval>>

\* ------------------------------------------------------------ retry policy
\* The service declares and configures a TaskRetryConfig and leaves the retry
\* handling of updateTaskStatus as a TODO; the delay is modelled as the
\* specification gives it: min(maxRetryDelay, retryDelay * backoffMultiplier^retryCount).
RECURSIVE Pow(_, _)
Pow(b, n) == IF n = 0 THEN 1 ELSE b * Pow(b, n - 1)

Min(a, b) == IF a <= b THEN a ELSE b

\* The delay without its cap.
RetryDelayUncapped(cfg, retryCount) ==
  cfg.retryDelay * Pow(cfg.backoffMultiplier, retryCount)

RetryDelay(cfg, retryCount) ==
  Min(cfg.maxRetryDelay, cfg.retryDelay * Pow(cfg.backoffMultiplier, retryCount))

\* One more recoverable failure of the task while retries remain: retryCount is
\* incremented and the delay of the next attempt is computed.
computeRetryDelay ==
  /\ Len(retryDelays) < retryConfig.maxRetries
  /\ retryDelays' = Append(retryDelays, RetryDelay(retryConfig, Len(retryDelays) + 1))
  /\ ret' = Ret("computeRetryDelay", 0, "OK", NoValue)
  /\ UNCHANGED <<now, tasks, queuesByPriority, workers, timers, statusReports,
                 cancelledPending, agentVars, hookVars, retryConfig, taken, healthCheckInterval>>

\* ------------------------------------------------- AgentOrchestrationService
AgentStatusOf(agentId) ==
  IF agentId \in DOMAIN agents THEN agents[agentId].status ELSE NoValue

createAgent ==
  LET agentId == agentSeq + 1 IN
  /\ agentSeq < MaxAgents
  /\ agentSeq' = agentId
  /\ agents' = [a \in (DOMAIN agents) \cup {agentId} |->
                  IF a = agentId
                  THEN [status |-> "deploying", errorMessage |-> NoValue, updatedAt |-> now]
                  ELSE agents[a]]
  /\ deployTimers' = deployTimers \cup {agentId}
  /\ ret' = Ret("createAgent", agentId, "OK", "pending")
  /\ UNCHANGED <<now, queueVars, runningAgents>>

\* The callback without its test that the agent is still in the registry.
RunningAfterDeploymentUnchecked(agentId) == runningAgents \cup {agentId}

\* runningAgents after the callback: if (agent) { ...; runningAgents.add(agentId) }
RunningAfterDeployment(agentId) ==
  IF agentId \in DOMAIN agents THEN runningAgents \cup {agentId} ELSE runningAgents

\* The setTimeout callback of simulateDeploymentProcess.
deploymentCallback(agentId) ==
  /\ agentId \in deployTimers
  /\ deployTimers' = deployTimers \ {agentId}
  /\ runningAgents' = RunningAfterDeployment(agentId)
  /\ IF agentId \in DOMAIN agents
     THEN agents' = [agents EXCEPT ![agentId] =
                 [@ EXCEPT !.status = "active", !.updatedAt = now]]
     ELSE UNCHANGED agents
  /\ ret' = Ret("deploymentCallback", agentId, "OK", AgentStatusOf(agentId))
  /\ UNCHANGED <<now, queueVars, agentSeq>>

AgentFound(agentId) == IF agentId \in DOMAIN agents THEN "OK" ELSE "AGENT_NOT_FOUND"

getAgent(agentId) ==
  /\ ret' = Ret("getAgent", agentId, AgentFound(agentId), AgentStatusOf(agentId))
  /\ UNCHANGED <<now, queueVars, agentVars>>

updateAgentStatus(agentId, u) ==
  /\ IF agentId \in DOMAIN agents
     THEN agents' = [agents EXCEPT ![agentId] =
            [@ EXCEPT !.status = u.status,
                      !.updatedAt = now,
                      !.errorMessage = IF u.errorMessage # NoValue
                                       THEN u.errorMessage ELSE @]]
     ELSE UNCHANGED agents
  /\ ret' = Ret("updateAgentStatus", agentId, AgentFound(agentId), AgentStatusOf(agentId))
  /\ UNCHANGED <<now, queueVars, runningAgents, agentSeq, deployTimers>>

\* scheduleAgentTask with a guard that also lets an inactive agent through.
ScheduleCodeLax(agentId) ==
  IF agentId \notin DOMAIN agents THEN "AGENT_NOT_FOUND"
  ELSE IF agents[agentId].status \notin {"active", "inactive"} THEN "AGENT_NOT_ACTIVE"
  ELSE "OK"

ScheduleCode(agentId) ==
  IF agentId \notin DOMAIN agents THEN "AGENT_NOT_FOUND"
  ELSE IF agents[agentId].status # "active" THEN "AGENT_NOT_ACTIVE"
  ELSE "OK"

\* The task scheduleAgentTask returns is a mock: it is built and returned, and
\* neither stored in a task store nor put in a bucket.
scheduleAgentTask(agentId, req) ==
  /\ ret' = Ret("scheduleAgentTask", agentId, ScheduleCode(agentId), AgentStatusOf(agentId))
  /\ UNCHANGED <<now, queueVars, agentVars>>

deleteAgent(agentId) ==
  /\ IF agentId \in DOMAIN agents
     THEN /\ agents' = [a \in (DOMAIN agents) \ {agentId} |-> agents[a]]
          /\ runningAgents' = runningAgents \ {agentId}
     ELSE UNCHANGED <<agents, runningAgents>>
  /\ ret' = Ret("deleteAgent", agentId, AgentFound(agentId), AgentStatusOf(agentId))
  /\ UNCHANGED <<now, queueVars, agentSeq, deployTimers>>

\* ------------------------------------------------------------- inputs
ReqPriorities == {"urgent", "high"}
ReqScheduled == {NoTime}
ReqMaxRetries == {1}
ReqAgents == {NoValue}
\* context.timeout, in minutes.
ReqTimeouts == {1}

Requests ==
  [priority : ReqPriorities, scheduledAt : ReqScheduled, maxRetries : ReqMaxRetries,
   agentId : ReqAgents, timeout : ReqTimeouts]

ErrorInputs == {<<[recoverable |-> TRUE, retryAttempt |-> 0]>>}

\* Status updates as the status route builds them: a result with completed, an
\* error with failed.
Updates ==
  {[status |-> s, result |-> NoValue, error |-> NoError, progress |-> NoValue] :
     s \in TaskStatuses \ {"completed", "failed"}}
  \cup {[status |-> "completed", result |-> "success", error |-> NoError, progress |-> NoValue]}
  \cup {[status |-> "failed", result |-> NoValue, error |-> e, progress |-> NoValue] :
          e \in ErrorInputs}

\* Hooks: one that defines every callback, one whose every callback throws (or
\* returns a rejected promise), one that only listens for errors.
Listener == [defines |-> Callbacks, throws |-> {}]
Thrower == [defines |-> Callbacks, throws |-> Callbacks]
ErrorListener == [defines |-> {"onError"}, throws |-> {}]
HookInputs == {Listener, Thrower, ErrorListener}

\* A progress report of a running task.
ProgressUpdates ==
  {[status |-> "running", result |-> NoValue, error |-> NoError, progress |-> "half"]}

HookUpdates == Updates \cup ProgressUpdates

\* Request bodies of the status route: a status (one of them unknown), with or
\* without a result, with or without an error.
BodyStatuses == {"running", "completed", "failed", "paused"}

Bodies ==
  [status : BodyStatuses, result : {NoValue, "success"},
   error : {NoError} \cup ErrorInputs, progress : {NoValue}]

\* The ids asked of the route: the tasks there may be, one id more, and a
\* blank one.
RouteIds == 1..(RouteTasks + 1) \cup {BlankTaskId}

\* Filters of listTasks; NoValue and NoTime stand for a filter that is not given.
NoFilter ==
  [status |-> NoValue, priority |-> NoValue, agentId |-> NoValue,
   createdAfter |-> NoTime, createdBefore |-> NoTime]

Filters ==
  {NoFilter,
   [NoFilter EXCEPT !.status = "pending", !.createdAfter = 1],
   [NoFilter EXCEPT !.priority = "high", !.createdBefore = 0]}

Pages == 1..MaxPage

Limits == 1..MaxLimit

\* Retry configurations: a delay and a cap are durations, the multiplier is >= 1.
RetryConfigs ==
  [maxRetries : {MaxRetryCount}, retryDelay : 0..MaxDelay,
   backoffMultiplier : 1..MaxMultiplier, maxRetryDelay : 0..MaxCap]

AgentUpdates == [status : AgentStatuses, errorMessage : {NoValue, "deploy failed"}]

\* ------------------------------------------------------- specifications
\* The task queue while the clock stands still: the life of up to LifecycleTasks
\* tasks under every status update the service accepts.
Next ==
  \/ \E req \in Requests :
       Cardinality(DOMAIN tasks) < LifecycleTasks /\ enqueueTask(req)
  \/ \E t \in TaskIds, u \in Updates :
       statusReports < MaxReports /\ updateTaskStatus(t, u)
  \/ \E t \in TaskIds : cancelTask(t)
  \/ \E w \in WorkerIds : registerWorker(w)
  \/ processNextTask
  \/ \E t \in TaskIds, ok \in BOOLEAN : outcomeCallback(t, ok)

Spec == Init /\ [][Next]_vars

\* The buckets with up to MaxTasks tasks; a worker may report a task as started.
StartUpdates == {u \in Updates : u.status = "running"}

PriorityNext ==
  \/ \E req \in Requests : enqueueTask(req)
  \/ \E t \in TaskIds, u \in StartUpdates :
       statusReports < PriorityReports /\ updateTaskStatus(t, u)
  \/ \E t \in TaskIds : cancelTask(t)
  \/ \E w \in WorkerIds : registerWorker(w)
  \/ processNextTask
  \/ \E t \in TaskIds, ok \in BOOLEAN : outcomeCallback(t, ok)

PrioritySpec == Init /\ [][PriorityNext]_vars

\* Cancellation against the task processor: a status update may hand a task
\* back as pending, whatever its status was.
RequeueUpdates == {u \in Updates : u.status = "pending"}

CancelNext ==
  \/ \E req \in Requests :
       Cardinality(DOMAIN tasks) < CancelTasks /\ enqueueTask(req)
  \/ \E t \in TaskIds, u \in RequeueUpdates :
       statusReports < CancelReports /\ updateTaskStatus(t, u)
  \/ \E t \in TaskIds : cancelTask(t)
  \/ \E w \in WorkerIds : registerWorker(w)
  \/ processNextTask
  \/ \E t \in TaskIds, ok \in BOOLEAN : outcomeCallback(t, ok)

CancelSpec == Init /\ [][CancelNext]_vars

\* The agent registry.
AgentNext ==
  \/ createAgent
  \/ \E a \in AgentIds : deploymentCallback(a)
  \/ \E a \in AgentIds : getAgent(a)
  \/ \E a \in AgentIds, u \in AgentUpdates : updateAgentStatus(a, u)
  \/ \E a \in AgentIds, req \in Requests : scheduleAgentTask(a, req)
  \/ \E a \in AgentIds : deleteAgent(a)

AgentSpec == Init /\ [][AgentNext]_vars

\* The worker registry under a running clock.
WorkerNext ==
  \/ Tick
  \/ \E w \in WorkerIds : registerWorker(w)
  \/ checkWorkerHealth
  \/ \E t \in TaskIds : getTask(t)

\* The configured intervals: the default and an override.
HealthCheckIntervals == {DefaultHealthCheckInterval, 2}

WorkerInit == \E interval \in HealthCheckIntervals : InitConfigured(DefaultRetry, interval)

WorkerSpec == WorkerInit /\ [][WorkerNext]_vars

\* Cancellation under a running clock: a task is started or timed out by a
\* status update, cancelled, and cancelled again later.
ClockUpdates == {u \in Updates : u.status \in {"running", "timeout"}}

ClockNext ==
  \/ Tick
  \/ \E req \in Requests :
       Cardinality(DOMAIN tasks) < ClockTasks /\ enqueueTask(req)
  \/ \E t \in TaskIds, u \in ClockUpdates :
       statusReports < ClockReports /\ updateTaskStatus(t, u)
  \/ \E t \in TaskIds : cancelTask(t)

ClockSpec == Init /\ [][ClockNext]_vars

\* The buckets under a running clock: tasks are enqueued with and without a
\* scheduledAt (time 0 is the epoch, new Date(0)) and with and without a
\* maxRetries, and cancelled.
BucketScheduled == {NoTime, 0, 1}
BucketMaxRetries == {NoMaxRetries, 1}

BucketRequests ==
  [priority : {"urgent"}, scheduledAt : BucketScheduled, maxRetries : BucketMaxRetries,
   agentId : ReqAgents, timeout : ReqTimeouts]

BucketNext ==
  \/ Tick
  \/ \E req \in BucketRequests :
       Cardinality(DOMAIN tasks) < BucketTasks /\ enqueueTask(req)
  \/ \E t \in TaskIds : cancelTask(t)

BucketSpec == Init /\ [][BucketNext]_vars

\* Status updates with execution hooks registered.
HookNext ==
  \/ \E h \in HookInputs : addExecutionHook(h)
  \/ \E req \in Requests :
       Cardinality(DOMAIN tasks) < HookTasks /\ enqueueTask(req)
  \/ \E t \in TaskIds, u \in HookUpdates :
       statusReports < HookReports /\ updateTaskStatus(t, u)

HookSpec == Init /\ [][HookNext]_vars

\* Agents with tasks of their own: a caller enqueues tasks whose context names
\* an agent, and agents are deleted.
TeardownRequests ==
  [priority : {"urgent"}, scheduledAt : ReqScheduled, maxRetries : ReqMaxRetries,
   agentId : AgentIds, timeout : ReqTimeouts]

TeardownNext ==
  \/ createAgent
  \/ \E a \in AgentIds : deploymentCallback(a)
  \/ \E req \in TeardownRequests :
       Cardinality(DOMAIN tasks) < TeardownTasks /\ enqueueTask(req)
  \/ \E t \in TaskIds : cancelTask(t)
  \/ \E a \in AgentIds : getAgent(a)
  \/ \E a \in AgentIds : deleteAgent(a)

TeardownSpec == Init /\ [][TeardownNext]_vars

\* The queue left to itself under a running clock: a task is enqueued and
\* reported as started, and after that only the background intervals, the
\* outcome timers and the clock run.  setInterval keeps the task processor and
\* the health check running, a timer that is set fires, and time passes.
TimeoutNext ==
  \/ Tick
  \/ \E req \in Requests :
       Cardinality(DOMAIN tasks) < TimeoutTasks /\ enqueueTask(req)
  \/ \E t \in TaskIds, u \in StartUpdates :
       statusReports < TimeoutReports /\ updateTaskStatus(t, u)
  \/ \E w \in WorkerIds : registerWorker(w)
  \/ processNextTask
  \/ \E t \in TaskIds, ok \in BOOLEAN : outcomeCallback(t, ok)
  \/ checkWorkerHealth

TimeoutSpec ==
  /\ Init
  /\ [][TimeoutNext]_vars
  /\ WF_vars(Tick)
  /\ WF_vars(processNextTask)
  /\ WF_vars(checkWorkerHealth)
  /\ \A t \in TaskIds : WF_vars(\E ok \in BOOLEAN : outcomeCallback(t, ok))

\* The task processor against every other writer of the buckets: tasks are
\* enqueued and cancelled, a status update may start a task or make it pending
\* again, and the health check runs.
TakeUpdates == {u \in Updates : u.status \in {"pending", "running"}}

TakeRequests == {req \in Requests : req.priority = "urgent"}

TakeNext ==
  \/ \E req \in TakeRequests :
       Cardinality(DOMAIN tasks) < TakeTasks /\ enqueueTask(req)
  \/ \E t \in TaskIds, u \in TakeUpdates :
       statusReports < TakeReports /\ updateTaskStatus(t, u)
  \/ \E t \in TaskIds : cancelTask(t)
  \/ \E w \in WorkerIds : registerWorker(w)
  \/ processNextTask
  \/ \E t \in TaskIds, ok \in BOOLEAN : outcomeCallback(t, ok)
  \/ checkWorkerHealth

TakeSpec == Init /\ [][TakeNext]_vars

\* Calls that are refused: tasks are looked up, updated and cancelled, by ids
\* that exist and ids that do not, before and after they have finished.
FrameNext ==
  \/ \E req \in TakeRequests :
       Cardinality(DOMAIN tasks) < FrameTasks /\ enqueueTask(req)
  \/ \E t \in TaskIds, u \in Updates :
       statusReports < FrameReports /\ updateTaskStatus(t, u)
  \/ \E t \in TaskIds : cancelTask(t)
  \/ \E t \in TaskIds : getTask(t)
  \/ \E w \in WorkerIds : registerWorker(w)
  \/ processNextTask
  \/ \E t \in TaskIds, ok \in BOOLEAN : outcomeCallback(t, ok)

FrameSpec == Init /\ [][FrameNext]_vars

\* The outcome timers: tasks are enqueued, started from outside, cancelled and
\* taken by the processor, and a timer that is set fires.
OutcomeNext ==
  \/ \E req \in TakeRequests :
       Cardinality(DOMAIN tasks) < OutcomeTasks /\ enqueueTask(req)
  \/ \E t \in TaskIds, u \in StartUpdates :
       statusReports < OutcomeReports /\ updateTaskStatus(t, u)
  \/ \E t \in TaskIds : cancelTask(t)
  \/ \E w \in WorkerIds : registerWorker(w)
  \/ processNextTask
  \/ \E t \in TaskIds, ok \in BOOLEAN : outcomeCallback(t, ok)

OutcomeSpec ==
  /\ Init
  /\ [][OutcomeNext]_vars
  /\ \A t \in TaskIds : WF_vars(\E ok \in BOOLEAN : outcomeCallback(t, ok))

\* Reports of a running task with hooks registered: a task is started and its
\* progress is reported, in either order.
DeliveryUpdates == StartUpdates \cup ProgressUpdates

DeliveryNext ==
  \/ \E h \in {Listener, ErrorListener} : addExecutionHook(h)
  \/ \E req \in TakeRequests :
       Cardinality(DOMAIN tasks) < DeliveryTasks /\ enqueueTask(req)
  \/ \E t \in TaskIds, u \in DeliveryUpdates :
       statusReports < DeliveryReports /\ updateTaskStatus(t, u)

DeliverySpec == Init /\ [][DeliveryNext]_vars

\* Listing: tasks are enqueued as time passes, one of them is cancelled, and
\* they are listed.
ListNext ==
  \/ now < ListNow /\ Tick
  \/ \E req \in Requests :
       Cardinality(DOMAIN tasks) < ListTasks /\ enqueueTask(req)
  \/ \E t \in TaskIds :
       (\A u \in DOMAIN tasks : tasks[u].status = "pending") /\ cancelTask(t)
  \/ \E f \in Filters, page \in Pages, limit \in Limits : listTasks(f, page, limit)

ListSpec == Init /\ [][ListNext]_vars

\* Status updates through the route.
RouteNext ==
  \/ \E req \in Requests :
       Cardinality(DOMAIN tasks) < RouteTasks /\ enqueueTask(req)
  \/ \E t \in RouteIds, body \in Bodies, fails \in BOOLEAN :
       (statusReports < RouteReports \/ Rejection(t, body) # "OK") /\ PUT(t, body, fails)

RouteSpec == Init /\ [][RouteNext]_vars

\* Failures of a task, reported through the route and by the outcome callback,
\* with error records that differ; the task may also be started, completed and
\* cancelled.
FailureInputs ==
  {<<r>> : r \in [recoverable : BOOLEAN, retryAttempt : {1}]}

FailureBodies ==
  [status : {"running", "failed"}, result : {NoValue},
   error : FailureInputs, progress : {NoValue}]
  \cup [status : {"completed"}, result : {"success"},
        error : {NoError}, progress : {NoValue}]

FailureNext ==
  \/ \E req \in TakeRequests :
       Cardinality(DOMAIN tasks) < FailureTasks /\ enqueueTask(req)
  \/ \E t \in TaskIds, body \in FailureBodies :
       statusReports < FailureReports /\ PUT(t, body, FALSE)
  \/ \E t \in TaskIds : cancelTask(t)
  \/ \E w \in WorkerIds : registerWorker(w)
  \/ processNextTask
  \/ \E t \in TaskIds, ok \in BOOLEAN : outcomeCallback(t, ok)

FailureSpec == Init /\ [][FailureNext]_vars

\* The retry policy on the recoverable failures of one task, for every
\* configuration of RetryConfigs.
RetryInit == \E cfg \in RetryConfigs : InitWith(cfg)

RetryNext == computeRetryDelay

RetrySpec == RetryInit /\ [][RetryNext]_vars

\* ------------------------------------------------------------------ claims
TerminalStatuses == {"completed", "failed", "cancelled", "timeout"}

TaskEdges ==
  { <<"pending", "running">>, <<"running", "completed">>, <<"running", "failed">>,
    <<"running", "timeout">>, <<"pending", "cancelled">>, <<"running", "cancelled">> }

StatusWriters == {"updateTaskStatus", "outcomeCallback", "cancelTask"}

\* C1: once a task's status is completed, failed, cancelled or timeout, no later
\* updateTaskStatus (an outcome callback included) or cancelTask changes it.
C1_TerminalStatusIsFinal ==
  [][\A t \in DOMAIN tasks :
       (ret'.op \in StatusWriters /\ tasks[t].status \in TerminalStatuses)
          => tasks'[t].status = tasks[t].status]_vars

\* C2: updateTaskStatus changes a task's status only along an edge of the task
\* state machine; any other requested change leaves the status as it was.
C2_UpdateFollowsEdges ==
  [][\A t \in DOMAIN tasks :
       (ret'.op \in {"updateTaskStatus", "outcomeCallback"}
          /\ tasks'[t].status # tasks[t].status)
          => <<tasks[t].status, tasks'[t].status>> \in TaskEdges]_vars

Rank(p) == CHOOSE i \in 1..Len(PriorityOrder) : PriorityOrder[i] = p

PendingIn(p) ==
  {queuesByPriority[p][k] : k \in 1..Len(queuesByPriority[p])}
     \cap {t \in DOMAIN tasks : tasks[t].status = "pending"}

\* C3: when the task processor has just taken a task out of a bucket, no bucket
\* of strictly higher priority holds a task whose status is pending.
C3_StrictPriority ==
  (ret.op = "processNextTask" /\ ret.id # NoTask)
     => \A p \in Priorities :
          Rank(p) < Rank(tasks[ret.id].priority) => PendingIn(p) = {}

\* C4: a task cancelled while pending is in no bucket when cancelTask returns or
\* at any time after, and no task-processor step takes it for execution.
C4_CancelledPendingNeverTaken ==
  /\ \A t \in cancelledPending : ~InAnyBucket(t)
  /\ ret.op = "processNextTask" => ret.id \notin cancelledPending

\* C4 happens: a task was cancelled while pending, a later update made its status
\* pending again, and the task processor then took another task.
C4_Witness ==
  /\ \E t \in cancelledPending : tasks[t].status = "pending"
  /\ ret.op = "processNextTask"
  /\ ret.id # NoTask

\* C8: cancelTask succeeds, and sets the status to cancelled, exactly for a task
\* that is pending or running; it fails with TASK_NOT_FOUND for an unknown id
\* and with TASK_ALREADY_FINISHED for completed, failed, cancelled and timeout.
C8_CancelOutcome ==
  ret.op = "cancelTask" =>
    /\ ret.pre = NoValue => ret.code = "TASK_NOT_FOUND"
    /\ ret.pre \in {"pending", "running"} =>
         ret.code = "OK" /\ tasks[ret.id].status = "cancelled"
    /\ ret.pre \in TerminalStatuses => ret.code = "TASK_ALREADY_FINISHED"

\* A failure report is a step that appends a record to the task's errors.
FailureReported(t) ==
  /\ ret'.op \in {"updateTaskStatus", "outcomeCallback"}
  /\ ret'.id = t
  /\ Len(tasks'[t].errors) = Len(tasks[t].errors) + 1

\* C9: a recoverable failure reported for a task with retryCount < maxRetries
\* increments retryCount, returns the status to pending and puts the task at
\* the tail of the bucket of its priority.
C9_RecoverableFailureRetries ==
  [][\A t \in DOMAIN tasks :
       (FailureReported(t) /\ Last(tasks'[t].errors).recoverable
          /\ tasks[t].retryCount < tasks[t].maxRetries)
       => /\ tasks'[t].status = "pending"
          /\ tasks'[t].retryCount = tasks[t].retryCount + 1
          /\ queuesByPriority'[tasks[t].priority] # <<>>
          /\ Last(queuesByPriority'[tasks[t].priority]) = t]_vars

\* The service keeps no dead-letter collection: its fields are tasks, workers,
\* executionHooks and queuesByPriority, and dead-letter processing is a TODO.
deadLetterSet == <<>>

RecoverableFailures(t) ==
  Cardinality({k \in 1..Len(tasks[t].errors) : tasks[t].errors[k].recoverable})

DeadLetterEntries(t) ==
  Cardinality({k \in 1..Len(deadLetterSet) : deadLetterSet[k] = t})

\* C10: a task with more recoverable failures than maxRetries has status failed
\* and exactly one entry in the dead-letter set.
C10_DeadLetteredOnce ==
  \A t \in DOMAIN tasks :
    RecoverableFailures(t) > tasks[t].maxRetries
      => tasks[t].status = "failed" /\ DeadLetterEntries(t) = 1

\* The status of every agent ever created; an agent whose record was deleted
\* counts as deleted.
LifecycleStatus(ags, seq, a) ==
  IF a \in DOMAIN ags THEN ags[a].status
  ELSE IF a <= seq THEN "deleted" ELSE NoValue

AgentEdges ==
  { <<"pending", "deploying">>, <<"deploying", "active">>, <<"deploying", "error">>,
    <<"active", "error">>, <<"active", "inactive">>, <<"active", "deleted">>,
    <<"inactive", "active">>, <<"inactive", "deleted">>,
    <<"error", "deploying">>, <<"error", "deleted">> }

\* C5: for an existing agent scheduleAgentTask succeeds exactly when the status
\* is active; for every other status it fails with AGENT_NOT_ACTIVE and no task
\* is stored or queued.
C5_ScheduleOnlyWhenActive ==
  (ret.op = "scheduleAgentTask" /\ ret.pre # NoValue) =>
    /\ ret.pre = "active" => ret.code = "OK"
    /\ ret.pre # "active" =>
         /\ ret.code = "AGENT_NOT_ACTIVE"
         /\ tasks = <<>>
         /\ \A p \in Priorities : queuesByPriority[p] = <<>>

\* C5 happens: scheduleAgentTask was refused for an agent in status error.
C5_Witness ==
  /\ ret.op = "scheduleAgentTask"
  /\ ret.pre = "error"
  /\ ret.code = "AGENT_NOT_ACTIVE"

\* C6: once createAgent has returned, no call observes the agent as pending, and
\* a scheduleAgentTask issued for it while its deployment callback is still
\* outstanding fails with AGENT_NOT_ACTIVE.
C6_DeployingUntilSignal ==
  /\ \A a \in DOMAIN agents : agents[a].status # "pending"
  /\ (ret.op = "scheduleAgentTask" /\ ret.id \in deployTimers)
        => ret.code = "AGENT_NOT_ACTIVE"

\* C7: every change of an agent's status follows an edge of the lifecycle graph,
\* and a deleted agent never changes status again.
C7_AgentFollowsEdges ==
  [][\A a \in 1..agentSeq :
       LifecycleStatus(agents', agentSeq', a) # LifecycleStatus(agents, agentSeq, a)
         => <<LifecycleStatus(agents, agentSeq, a), LifecycleStatus(agents', agentSeq', a)>>
              \in AgentEdges]_vars

\* C11: over the recoverable failures of one task the retry delay never goes
\* down from one attempt to the next, and no delay exceeds maxRetryDelay.
C11_BackoffMonotoneAndCapped ==
  \A n \in 1..Len(retryDelays) :
    /\ retryDelays[n] <= retryConfig.maxRetryDelay
    /\ n > 1 => retryDelays[n] >= retryDelays[n - 1]

\* C11 happens: the delay grew from the first attempt to the second and the
\* third attempt was cut down to the cap.
C11_Witness ==
  /\ Len(retryDelays) >= 3
  /\ retryDelays[1] < retryDelays[2]
  /\ retryDelays[3] = retryConfig.maxRetryDelay
  /\ RetryDelayUncapped(retryConfig, 3) > retryConfig.maxRetryDelay

\* C13: when deleteAgent has succeeded, no task whose context names the agent
\* is pending or running, and none of them is in a bucket.
C13_DeleteCancelsAgentTasks ==
  (ret.op = "deleteAgent" /\ ret.code = "OK") =>
    \A t \in DOMAIN tasks :
      tasks[t].agentId = ret.id =>
        /\ tasks[t].status \notin {"pending", "running"}
        /\ ~InAnyBucket(t)

\* C14: deleteAgent is a logical delete: when it has succeeded the agent's
\* record is still in the registry with status deleted, and getAgent finds
\* every agent that was ever created.
C14_LogicalDelete ==
  /\ (ret.op = "deleteAgent" /\ ret.code = "OK") =>
        (ret.id \in DOMAIN agents /\ agents[ret.id].status = "deleted")
  /\ (ret.op = "getAgent" /\ ret.id \in 1..agentSeq) => ret.code = "OK"

\* C15: deleteAgent on an agent that is already deleted succeeds again and
\* leaves the agent registry, the running set and every task as they were.
C15_DeleteAgentIdempotent ==
  [][(ret'.op = "deleteAgent" /\ LifecycleStatus(agents, agentSeq, ret'.id) = "deleted")
       => /\ ret'.code = "OK"
          /\ UNCHANGED <<agents, runningAgents, tasks, queuesByPriority>>]_vars

\* C16: a cancelTask that follows a cancelTask of the same id, or that finds
\* the task already cancelled, changes no task (status, updatedAt and
\* completedAt included), no bucket and no worker.
C16_CancelTaskIdempotent ==
  [][(ret'.op = "cancelTask"
        /\ ((ret.op = "cancelTask" /\ ret.id = ret'.id) \/ ret'.pre = "cancelled"))
       => UNCHANGED <<tasks, queuesByPriority, workers>>]_vars

\* C16 happens: a task cancelled at an earlier time was cancelled again.
C16_Witness ==
  /\ ret.op = "cancelTask"
  /\ ret.pre = "cancelled"
  /\ ret.code = "TASK_ALREADY_FINISHED"
  /\ tasks[ret.id].updatedAt < now

\* The scheduled time of a task: its scheduledAt, and the time it was enqueued
\* when it has none.
ScheduledTime(t) ==
  IF tasks[t].scheduledAt # NoTime THEN tasks[t].scheduledAt ELSE tasks[t].createdAt

\* Tasks get their ids in the order in which they are enqueued.
EnqueuedBefore(t1, t2) == t1 < t2

\* C17: every bucket is in ascending order of scheduled time, and entries
\* with the same scheduled time are in the order in which they were enqueued.
C17_BucketsOrdered ==
  \A p \in Priorities :
    \A i, j \in 1..Len(queuesByPriority[p]) :
      i < j =>
        LET a == queuesByPriority[p][i]
            b == queuesByPriority[p][j]
        IN /\ ScheduledTime(a) <= ScheduledTime(b)
           /\ ScheduledTime(a) = ScheduledTime(b) => EnqueuedBefore(a, b)

\* The number of entries for task t in the four buckets taken together.
RECURSIVE OccurrencesFrom(_, _, _)
OccurrencesFrom(qs, t, i) ==
  IF i > Len(PriorityOrder) THEN 0
  ELSE Cardinality({k \in 1..Len(qs[PriorityOrder[i]]) : qs[PriorityOrder[i]][k] = t})
         + OccurrencesFrom(qs, t, i + 1)

Occurrences(qs, t) == OccurrencesFrom(qs, t, 1)

\* C18: the buckets start empty, and every step that changes a bucket leaves
\* each task id at most once in the four buckets taken together and adds no
\* entry for a task whose status is terminal.
C18_AtMostOnceAndNeverAgain ==
  [][queuesByPriority' # queuesByPriority =>
       \A t \in DOMAIN tasks' :
         /\ Occurrences(queuesByPriority', t) <= 1
         /\ (t \in DOMAIN tasks /\ tasks[t].status \in TerminalStatuses)
              => Occurrences(queuesByPriority', t) <= Occurrences(queuesByPriority, t)]_vars

\* C18 happens: a status update has made a terminal task pending again, and
\* the task is in no bucket.
C18_Witness ==
  /\ ret.op = "updateTaskStatus"
  /\ ret.pre \in TerminalStatuses
  /\ tasks[ret.id].status = "pending"
  /\ ~InAnyBucket(ret.id)

\* a <= b as JavaScript evaluates it: false when b is undefined.
LessOrEqual(a, b) == b # NoMaxRetries /\ a <= b

\* C19: every stored task has retryCount <= maxRetries.
C19_RetryCountWithinMax ==
  \A t \in DOMAIN tasks : LessOrEqual(tasks[t].retryCount, tasks[t].maxRetries)

Delivered(calls, i, cb) ==
  \E k \in 1..Len(calls) : calls[k] = [hook |-> i, callback |-> cb]

\* C20: an updateTaskStatus on a stored task returns success whatever the hooks
\* do, records the task as the update alone determines, and delivers to every
\* hook that does not throw each callback that is due to it.
C20_HookIsolation ==
  [][(ret'.op = "updateTaskStatus" /\ ret'.id \in DOMAIN tasks)
       => /\ ret'.code = "OK"
          /\ \E u \in HookUpdates : tasks' = UpdatedTasks(ret'.id, u)
          /\ \A i \in 1..Len(executionHooks), cb \in Callbacks :
               (executionHooks[i].throws = {} /\ Due(cb, executionHooks[i], tasks'[ret'.id]))
                  => Delivered(hookCalls', i, cb)]_vars

\* C20 happens: during a successful update a hook threw in its callback and a
\* hook registered after it received its own.
C20_Witness ==
  /\ ret.op = "updateTaskStatus"
  /\ ret.code = "OK"
  /\ \E k1, k2 \in 1..Len(hookCalls) :
       /\ hookCalls[k1].callback \in executionHooks[hookCalls[k1].hook].throws
       /\ hookCalls[k2].hook > hookCalls[k1].hook

\* A body whose status is completed without a result, or failed without an error.
Incomplete(body) ==
  \/ body.status = "completed" /\ body.result = NoValue
  \/ body.status = "failed" /\ body.error = NoError

\* C21 as stated: a request whose body is incomplete is answered with
\* VALIDATION_FAILED, does not reach updateTaskStatus and changes no task.
C21_IncompleteRejected ==
  [][(ret'.op = "PUT" /\ Incomplete(ret'.body))
       => /\ ret'.code = "VALIDATION_FAILED"
          /\ UNCHANGED <<tasks, queuesByPriority, statusReports, hookCalls>>]_vars

\* C21 as amended: a request whose body is incomplete is answered with
\* VALIDATION_FAILED, or with INVALID_TASK_ID when its task id is blank, does
\* not reach updateTaskStatus and changes no task.
C21_IncompleteRejectedOrBlank ==
  [][(ret'.op = "PUT" /\ Incomplete(ret'.body))
       => /\ ret'.code = IF ret'.id = BlankTaskId THEN "INVALID_TASK_ID"
                         ELSE "VALIDATION_FAILED"
          /\ UNCHANGED <<tasks, queuesByPriority, statusReports, hookCalls>>]_vars

\* C21 happens: an incomplete update for a stored task was refused.
C21_Witness ==
  /\ ret.op = "PUT"
  /\ Incomplete(ret.body)
  /\ ret.id \in DOMAIN tasks
  /\ ret.code = "VALIDATION_FAILED"

\* C22: when scheduleAgentTask has succeeded, the task store holds a pending
\* task whose context names the agent, and the task is in the bucket of its
\* priority.
C22_ScheduledTaskStored ==
  (ret.op = "scheduleAgentTask" /\ ret.code = "OK") =>
    \E t \in DOMAIN tasks :
      /\ tasks[t].agentId = ret.id
      /\ tasks[t].status = "pending"
      /\ InQueue(queuesByPriority[tasks[t].priority], t)

\* A running task whose updatedAt is older than its timeout.
Overdue(t) ==
  /\ t \in DOMAIN tasks
  /\ tasks[t].status = "running"
  /\ now - tasks[t].updatedAt > tasks[t].timeout

\* C23: a running task whose updatedAt is older than its timeout is eventually
\* failed, with an error appended to its errors.
C23_OverdueEventuallyFailed ==
  \A t \in TaskIds :
    Overdue(t) ~> /\ t \in DOMAIN tasks
                  /\ tasks[t].status = "failed"
                  /\ Len(tasks[t].errors) > 0

\* The ids of the tasks that match the filters of the last listing.
Matching == {t \in DOMAIN tasks : Passes(tasks[t], ret.filters)}

\* An arrangement of the matching tasks, each once, newest first.
NewestFirstOrders ==
  {s \in [1..Cardinality(Matching) -> Matching] :
     /\ \A i, j \in DOMAIN s : i # j => s[i] # s[j]
     /\ \A i, j \in DOMAIN s : i < j => tasks[s[i]].createdAt >= tasks[s[j]].createdAt}

\* C24: a listing with page >= 1 and limit >= 1 returns the elements at
\* positions (page-1)*limit .. page*limit-1 (counted from 0) of the matching
\* tasks in order of createdAt, newest first; total is the number of matching
\* tasks, totalPages is the least n with n * limit >= total, and hasMore says
\* that page < totalPages.
C24_ListTasksPage ==
  ret.op = "listTasks" =>
    /\ ret.total = Cardinality(Matching)
    /\ ret.totalPages * ret.limit >= ret.total
    /\ (ret.totalPages - 1) * ret.limit < ret.total
    /\ ret.hasMore = (ret.page < ret.totalPages)
    /\ \E s \in NewestFirstOrders :
         LET first == (ret.page - 1) * ret.limit + 1
             inPage == {i \in DOMAIN s : first <= i /\ i < first + ret.limit}
         IN  /\ Len(ret.tasks) = Cardinality(inPage)
             /\ \A i \in DOMAIN ret.tasks : ret.tasks[i] = s[first + i - 1]

\* The second and last page of two matching tasks created at different times.
C24_Witness ==
  /\ ret.op = "listTasks"
  /\ ret.page = 2 /\ ret.limit = 1 /\ ret.total = 2 /\ ret.totalPages = 2
  /\ Len(ret.tasks) = 1
  /\ ~ret.hasMore
  /\ \E t, u \in Matching : tasks[t].createdAt # tasks[u].createdAt

\* The pending entries of a bucket, in the order of the bucket.
PendingEntries(q) == SelectSeq(q, LAMBDA t : tasks[t].status = "pending")

\* The buckets before p in the order of the processor are empty.
FirstNonEmpty(p) ==
  /\ queuesByPriority[p] # <<>>
  /\ \A i, j \in DOMAIN PriorityOrder :
       (PriorityOrder[j] = p /\ i < j) => queuesByPriority[PriorityOrder[i]] = <<>>

\* C25: a step of the task processor with an idle worker starts no task only
\* if no bucket holds a pending entry, and when the head of the bucket it
\* reads is not pending while the bucket holds a pending entry, the step takes
\* the earliest pending entry of that bucket.
C25_StaleHeadSkippedInBucket ==
  [][(ret'.op = "processNextTask" /\ ret'.code = "OK") =>
       /\ ret'.id = NoTask =>
            \A p \in Priorities : PendingEntries(queuesByPriority[p]) = <<>>
       /\ \A p \in Priorities :
            (/\ FirstNonEmpty(p)
             /\ tasks[Head(queuesByPriority[p])].status # "pending"
             /\ PendingEntries(queuesByPriority[p]) # <<>>)
            => ret'.id = Head(PendingEntries(queuesByPriority[p]))]_vars

\* The workers whose currentTasks holds task t in the state after the step.
HoldersAfter(t) ==
  {w \in DOMAIN workers' :
     \E k \in DOMAIN workers'[w].currentTasks : workers'[w].currentTasks[k] = t}

\* C26: when the task processor takes a task out of a bucket, in the same step
\* the task becomes running and exactly one worker that was idle holds its id
\* in currentTasks.
C26_TakenTaskRunningAndBound ==
  [][(ret'.op = "processNextTask" /\ ret'.id # NoTask) =>
       /\ tasks'[ret'.id].status = "running"
       /\ Cardinality(HoldersAfter(ret'.id)) = 1
       /\ HoldersAfter(ret'.id) \subseteq IdleWorkers]_vars

\* C27: the task processor takes each task id out of the buckets at most once,
\* so at most one outcome callback is ever set for it.
C27_TakenAtMostOnce ==
  \A t \in TaskIds : CopiesIn(t, taken) <= 1

\* A task that was taken and has finished is pending again after a status
\* update, and a step of the processor with an idle worker has not taken it.
C27_Witness ==
  /\ ret.op = "processNextTask" /\ ret.code = "OK" /\ ret.id = NoTask
  /\ \E t \in DOMAIN tasks :
       /\ CopiesIn(t, taken) = 1
       /\ ~BagIn(t, timers)
       /\ tasks[t].status = "pending"

\* C28: every entry of every bucket is a task whose status is pending.
C28_BucketEntriesPending ==
  \A p \in Priorities : \A k \in DOMAIN queuesByPriority[p] :
    tasks[queuesByPriority[p][k]].status = "pending"

\* C29: every task whose status is completed, failed, cancelled or timeout has
\* completedAt set, and every task whose status is running has startedAt set.
C29_TimestampsSet ==
  \A t \in DOMAIN tasks :
    /\ tasks[t].status \in TerminalStatuses => tasks[t].completedAt # NoTime
    /\ tasks[t].status = "running" => tasks[t].startedAt # NoTime

\* Sequence a is an initial part of sequence b.
IsPrefix(a, b) == Len(a) <= Len(b) /\ SubSeq(b, 1, Len(a)) = a

\* C30: in every step the errors of every task are an initial part of its
\* errors after the step, and a failed update that carries an error record and
\* reaches the task appends exactly that record.
C30_ErrorsAppendOnly ==
  [][tasks' # tasks =>
       /\ \A t \in DOMAIN tasks :
            t \in DOMAIN tasks' /\ IsPrefix(tasks[t].errors, tasks'[t].errors)
       /\ (/\ ret'.op = "PUT" /\ ret'.code = "OK"
           /\ ret'.body.status = "failed" /\ ret'.body.error # NoError)
          => tasks'[ret'.id].errors =
               Append(tasks[ret'.id].errors, StatusUpdate(ret'.body).error[1])]_vars

\* A second failure has been reported with a record that differs from the
\* first, and the task holds both, the first one first.
C30_Witness ==
  /\ ret.op = "PUT" /\ ret.code = "OK"
  /\ ret.body.status = "failed"
  /\ ret.id \in DOMAIN tasks
  /\ Len(tasks[ret.id].errors) = 2
  /\ tasks[ret.id].errors[2] = ret.body.error[1]
  /\ tasks[ret.id].errors[1] # tasks[ret.id].errors[2]

\* C31: a call of getTask, updateTaskStatus or cancelTask that returns
\* TASK_NOT_FOUND or TASK_ALREADY_FINISHED leaves the task store, the buckets
\* and the worker map as they were.
C31_RefusedCallChangesNothing ==
  [][(/\ ret'.op \in {"getTask", "updateTaskStatus", "cancelTask"}
      /\ ret'.code \in {"TASK_NOT_FOUND", "TASK_ALREADY_FINISHED"})
     => UNCHANGED <<tasks, queuesByPriority, workers>>]_vars

\* cancelTask has refused a finished task whose entry is still in a bucket,
\* while a worker is registered.
C31_Witness ==
  /\ ret.op = "cancelTask" /\ ret.code = "TASK_ALREADY_FINISHED"
  /\ InAnyBucket(ret.id)
  /\ DOMAIN workers # {}

\* The age of a worker's last heartbeat.
HeartbeatAge(w) == now - workers[w].lastHeartbeat

\* C32: a health sweep removes a worker exactly when the age of its last
\* heartbeat exceeds twice the configured healthCheckInterval.
C32_StaleAtTwiceInterval ==
  [][ret'.op = "checkWorkerHealth" =>
       \A w \in DOMAIN workers :
         (w \notin DOMAIN workers') <=> (HeartbeatAge(w) > 2 * healthCheckInterval)]_vars

\* A step of the service, other than a registration, that refreshes the
\* heartbeat of worker w and leaves its status and its tasks as they are.
HeartbeatStep(w) ==
  /\ WorkerNext
  /\ ret'.op # "registerWorker"
  /\ w \in DOMAIN workers'
  /\ workers'[w].lastHeartbeat = now
  /\ workers'[w].status = workers[w].status
  /\ workers'[w].currentTasks = workers[w].currentTasks

\* C33: a registered worker whose heartbeat has aged can refresh it: some
\* operation other than registering anew sets lastHeartbeat to the current
\* time and keeps the worker's status and currentTasks.
C33_HeartbeatAvailable ==
  \A w \in DOMAIN workers :
    HeartbeatAge(w) > 0 => ENABLED HeartbeatStep(w)

\* C34: for a request to the status route, the task store after the request
\* is the one that results when monitoring succeeds and the one that results
\* when it fails, and the answer is a success exactly when the update reached
\* the service and the task exists.
C34_MonitoringFireAndForget ==
  [][ret'.op = "PUT" =>
       /\ \A fails \in BOOLEAN : tasks' = PutTasks(ret'.id, ret'.body, fails)
       /\ (ret'.code = "OK") <=>
            (statusReports' = statusReports + 1 /\ ret'.id \in DOMAIN tasks)]_vars

\* Monitoring failed during a request that was applied to a task and answered
\* as a success.
C34_Witness ==
  /\ ret.op = "PUT" /\ ret.monitoringFails
  /\ ret.code = "OK"
  /\ ret.id \in DOMAIN tasks
  /\ tasks[ret.id].status = ret.body.status
  /\ ret.pre # ret.body.status

\* C35: the deployment callback leaves the status of an agent that is no
\* longer deploying as it is.
C35_CallbackOnlyWhileDeploying ==
  [][(/\ ret'.op = "deploymentCallback"
      /\ ret'.id \in DOMAIN agents
      /\ agents[ret'.id].status # "deploying")
     => (ret'.id \in DOMAIN agents' /\ agents'[ret'.id].status = agents[ret'.id].status)]_vars

\* C36: every id in runningAgents is the id of an agent in the registry.
C36_RunningAgentsRegistered ==
  runningAgents \subseteq DOMAIN agents

\* The deployment callback of an agent has fired after the agent was deleted.
C36_Witness ==
  /\ ret.op = "deploymentCallback"
  /\ ret.id \in 1..agentSeq
  /\ ret.id \notin DOMAIN agents
  /\ ret.id \notin runningAgents

\* C37: every id in runningAgents is the id of an agent whose status is active.
C37_RunningAgentsActive ==
  \A a \in runningAgents : a \in DOMAIN agents /\ agents[a].status = "active"

\* C38: every stored task whose status is pending is in the bucket of its
\* priority, or has been taken by the task processor and has its outcome
\* callback outstanding.
C38_PendingTaskHeld ==
  \A t \in DOMAIN tasks :
    tasks[t].status = "pending" =>
      \/ InQueue(queuesByPriority[tasks[t].priority], t)
      \/ BagIn(t, taken) /\ BagIn(t, timers)

\* C39: a task the processor has taken, with its outcome callback outstanding,
\* eventually has status completed or failed, unless it is cancelled.
C39_TakenTaskEventuallySettled ==
  \A t \in TaskIds :
    BagIn(t, timers) ~> /\ t \in DOMAIN tasks
                        /\ tasks[t].status \in {"completed", "failed", "cancelled"}

\* The outcome callback of a taken task has fired and recorded a failure.
C39_Witness ==
  /\ ret.op = "outcomeCallback"
  /\ BagIn(ret.id, taken)
  /\ ~BagIn(ret.id, timers)
  /\ tasks[ret.id].status = "failed"
  /\ Len(tasks[ret.id].errors) = 1

\* C40: an update of a task that is running and stays running delivers
\* beforeStart to no hook.
C40_BeforeStartOncePerEntry ==
  [][(/\ ret'.op = "updateTaskStatus" /\ ret'.code = "OK"
      /\ ret'.pre = "running"
      /\ tasks'[ret'.id].status = "running")
     => \A i \in 1..Len(executionHooks) : ~Delivered(hookCalls', i, "beforeStart")]_vars

====
